---------------------------- MODULE Spec2Model ----------------------------
(***************************************************************************)
(* State-machine model of the PDF retrieval subsystem: the chunker         *)
(* (chunkText), the similarity engine (cosineSimilarity,                   *)
(* findSimilarChunks), the in-memory document store (PDFStorage), the      *)
(* retrieval orchestrator (getRAGContext), the context formatter           *)
(* (formatRAGContext) and the upload handler (POST).                       *)
(*                                                                         *)
(* Strings are sequences of one-character strings.  Numbers produced by    *)
(* cosineSimilarity are exact rationals: the embeddings of the model have  *)
(* integer Euclidean norms, so every square root the code takes is exact   *)
(* and the one floating-point division rounds a rational monotonically.    *)
(***************************************************************************)
EXTENDS Integers, Sequences, FiniteSets, TLC

VARIABLES
    call,       \* the pure function applied and its arguments
    ret,        \* what that application produced
    mem,        \* the array passed to it by reference, as it is now
    documents,  \* PDFStorage.documents: the entries of the Map, in insertion order
    latest,     \* history: per id, what was stored last and not removed since
    rag,        \* the getRAGContext call in progress: its position, its locals,
                \* how its embed call settled and, as history, whether the
                \* store still held the record it read when it returned
    upload,     \* the upload request in progress: its position, its locals, the
                \* embed call of each chunk and the response
    uploads,    \* how many upload requests have arrived
    nanoids     \* how many ids nanoid has given out

vars == <<call, ret, mem, documents, latest, rag, upload, uploads, nanoids>>

(***************************************************************************)
(* Completion records: how a call ends.                                    *)
(***************************************************************************)
Pending == [kind |-> "pending"]
Return(v) == [kind |-> "return", value |-> v]
Throw(e) == [kind |-> "throw", error |-> e]

(***************************************************************************)
(* JavaScript values that are not strings, numbers or arrays.              *)
(***************************************************************************)
Undefined == [type |-> "undefined"]
Null == [type |-> "null"]

(***************************************************************************)
(* Map: a sequence of [key, value] entries in insertion order, one per key.*)
(***************************************************************************)
MapHas(map, key) == \E i \in 1..Len(map) : map[i].key = key

MapGet(map, key) ==
    IF MapHas(map, key)
    THEN map[CHOOSE i \in 1..Len(map) : map[i].key = key].value
    ELSE Undefined

\* set that adds an entry without looking for the key
MapSetAppends(map, key, value) == Append(map, [key |-> key, value |-> value])

\* Map.prototype.set: an existing key keeps its place and takes the value
MapSet(map, key, value) ==
    IF MapHas(map, key)
    THEN [i \in 1..Len(map) |->
             IF map[i].key = key THEN [key |-> key, value |-> value] ELSE map[i]]
    ELSE Append(map, [key |-> key, value |-> value])

\* Map.prototype.delete: the map without the key, and whether it was there
MapDelete(map, key) ==
    [map |-> SelectSeq(map, LAMBDA e : e.key # key), result |-> MapHas(map, key)]

MapValues(map) == [i \in 1..Len(map) |-> map[i].value]

(***************************************************************************)
(* PDFStorage.  Each method gives the Map afterwards and what it returns.  *)
(***************************************************************************)
storeDocument(docs, documentId, filename, chunks, now) ==
    LET document == [id |-> documentId, filename |-> filename, chunks |-> chunks,
                     createdAt |-> now]
    IN  [documents |-> MapSet(docs, documentId, document), result |-> document]

getDocument(docs, documentId) == MapGet(docs, documentId)

deleteDocument(docs, documentId) ==
    LET d == MapDelete(docs, documentId)
    IN  [documents |-> d.map, result |-> d.result]

getAllDocuments(docs) == MapValues(docs)

clearAll(docs) == [documents |-> <<>>, result |-> Undefined]

(***************************************************************************)
(* What the callers of the store pass to it.                               *)
(***************************************************************************)
\* new Date() gives one of 1..MaxTime
MaxTime == 1
LongDocChunks == 12

DocIds == {"doc1", "doc2"}
Times == 1..MaxTime

\* a document of more chunks than any ranking may return
LongChunks == [i \in 1..LongDocChunks |-> [id |-> i, text |-> "a", embedding |-> <<1, 0>>]]

\* the filename and the chunks of the documents stored
Uploads ==
    {[filename |-> "empty.pdf", chunks |-> <<>>],
     [filename |-> "x.pdf",
      chunks |-> <<[id |-> 1, text |-> "a", embedding |-> <<1, 0>>],
                   [id |-> 2, text |-> "b", embedding |-> <<0, 1>>]>>],
     [filename |-> "y.pdf",
      chunks |-> <<[id |-> 3, text |-> "c", embedding |-> <<0, 1>>],
                   [id |-> 4, text |-> "d", embedding |-> <<3, 4>>],
                   [id |-> 5, text |-> "e", embedding |-> <<0, 2>>]>>],
     [filename |-> "long.pdf", chunks |-> LongChunks]}

Absent == [type |-> "absent"]

StoreInit ==
    /\ documents = <<>>
    /\ latest = [id \in DocIds |-> Absent]

RagIdle ==
    [pc |-> "idle", variant |-> "none", query |-> "", documentId |-> "", topK |-> 0,
     document |-> Undefined, embedCalls |-> 0, embedded |-> Pending,
     result |-> Pending, storeAtReturn |-> "unread"]

RagInit == rag = RagIdle

UploadIdle ==
    [pc |-> "idle", variant |-> "none", filename |-> "", chunks |-> <<>>,
     embeds |-> <<>>, response |-> Pending]

UploadInit ==
    /\ upload = UploadIdle
    /\ uploads = 0
    /\ nanoids = 0

(***************************************************************************)
(* Bounds of the chunker's inputs.                                         *)
(***************************************************************************)
MaxTextLen == 5
MaxChunkSizeBound == 3

DefaultMinChunkSize == 700
DefaultMaxChunkSize == 900

\* "\n" stands for every whitespace character other than the space
Whitespace == {" ", "\n"}
Letters == {"a", "b"}
Alphabet == Letters \cup Whitespace

RECURSIVE StringsUpTo(_)
StringsUpTo(n) ==
    IF n = 0 THEN {<<>>}
    ELSE LET shorter == StringsUpTo(n - 1)
         IN  shorter \cup {Append(s, c) : s \in {t \in shorter : Len(t) = n - 1}, c \in Alphabet}

Texts == StringsUpTo(MaxTextLen)

IsWs(c) == c \in Whitespace

\* the k-th smallest element of a finite set of integers
Kth(S, k) == CHOOSE x \in S : Cardinality({y \in S : y < x}) = k - 1

(***************************************************************************)
(* text.split(/\s+/): the pieces between the maximal whitespace runs; a    *)
(* run at the start or the end of the text leaves an empty piece there,    *)
(* and the empty text splits into one empty piece.                         *)
(***************************************************************************)
Split(text) ==
    LET n == Len(text)
        starts == {i \in 1..n : IsWs(text[i]) /\ (i = 1 \/ ~IsWs(text[i - 1]))}
        ends == {j \in 1..n : IsWs(text[j]) /\ (j = n \/ ~IsWs(text[j + 1]))}
        m == Cardinality(starts)
    IN  [k \in 1..(m + 1) |->
            SubSeq(text,
                   IF k = 1 THEN 1 ELSE Kth(ends, k - 1) + 1,
                   IF k = m + 1 THEN n ELSE Kth(starts, k) - 1)]

\* String.prototype.trim
Trim(s) ==
    LET n == Len(s)
    IN  IF \A i \in 1..n : IsWs(s[i]) THEN <<>>
        ELSE LET first == CHOOSE i \in 1..n :
                              ~IsWs(s[i]) /\ \A k \in 1..(i - 1) : IsWs(s[k])
                 last == CHOOSE j \in 1..n :
                              ~IsWs(s[j]) /\ \A k \in (j + 1)..n : IsWs(s[k])
             IN  SubSeq(s, first, last)

\* the loop body with the flushed chunk lost: the next word overwrites it
ChunkStepDropsFlushed(st, word, maxChunkSize) ==
    IF Len(st.currentChunk) + Len(word) + 1 > maxChunkSize /\ Len(st.currentChunk) > 0
    THEN [chunks |-> st.chunks, currentChunk |-> word]
    ELSE [chunks |-> st.chunks,
          currentChunk |-> st.currentChunk
                           \o (IF Len(st.currentChunk) > 0 THEN <<" ">> ELSE <<>>)
                           \o word]

\* the loop body with the separating space left out of the size test
ChunkStepForgetsSpace(st, word, maxChunkSize) ==
    IF Len(st.currentChunk) + Len(word) > maxChunkSize /\ Len(st.currentChunk) > 0
    THEN [chunks |-> Append(st.chunks, Trim(st.currentChunk)), currentChunk |-> word]
    ELSE [chunks |-> st.chunks,
          currentChunk |-> st.currentChunk
                           \o (IF Len(st.currentChunk) > 0 THEN <<" ">> ELSE <<>>)
                           \o word]

\* one iteration of chunkText's loop over the words
ChunkStep(st, word, maxChunkSize) ==
    IF Len(st.currentChunk) + Len(word) + 1 > maxChunkSize /\ Len(st.currentChunk) > 0
    THEN [chunks |-> Append(st.chunks, Trim(st.currentChunk)), currentChunk |-> word]
    ELSE [chunks |-> st.chunks,
          currentChunk |-> st.currentChunk
                           \o (IF Len(st.currentChunk) > 0 THEN <<" ">> ELSE <<>>)
                           \o word]

RECURSIVE ChunkLoop(_, _, _, _)
ChunkLoop(st, words, k, maxChunkSize) ==
    IF k > Len(words) THEN st
    ELSE ChunkLoop(ChunkStep(st, words[k], maxChunkSize), words, k + 1, maxChunkSize)

\* chunkText pushing what is left without testing its length, and returning
\* the chunks unfiltered
ChunkTextPushesRemainder(text, minChunkSize, maxChunkSize) ==
    LET words == Split(text)
        st == ChunkLoop([chunks |-> <<>>, currentChunk |-> <<>>], words, 1, maxChunkSize)
    IN  Append(st.chunks, Trim(st.currentChunk))

chunkText(text, minChunkSize, maxChunkSize) ==
    LET words == Split(text)
        st == ChunkLoop([chunks |-> <<>>, currentChunk |-> <<>>], words, 1, maxChunkSize)
        chunks == IF Len(st.currentChunk) > 0
                  THEN Append(st.chunks, Trim(st.currentChunk))
                  ELSE st.chunks
    IN  SelectSeq(chunks, LAMBDA chunk : Len(chunk) > 0)

(***************************************************************************)
(* The chunker applied to every bounded text and size.                     *)
(***************************************************************************)
ChunkCalls ==
    [op : {"chunkText"}, text : Texts, minChunkSize : {0, DefaultMinChunkSize},
     maxChunkSize : 0..MaxChunkSizeBound]

InitChunk ==
    /\ call \in ChunkCalls
    /\ ret = Pending
    /\ mem = <<>>
    /\ StoreInit
    /\ RagInit
    /\ UploadInit

CallChunkText ==
    /\ call.op = "chunkText"
    /\ ret = Pending
    /\ ret' = Return(chunkText(call.text, call.minChunkSize, call.maxChunkSize))
    /\ UNCHANGED <<call, mem, documents, latest, rag, upload, uploads, nanoids>>

NextChunk == CallChunkText

SpecChunk == InitChunk /\ [][NextChunk]_vars

(***************************************************************************)
(* Numbers.  A number is num/den in lowest terms with den > 0; a zero den  *)
(* is what a division by zero leaves: NaN for 0/0, an infinity otherwise.  *)
(***************************************************************************)
Abs(x) == IF x < 0 THEN -x ELSE x
Sign(x) == IF x < 0 THEN -1 ELSE IF x > 0 THEN 1 ELSE 0

RECURSIVE Gcd(_, _)
Gcd(a, b) == IF b = 0 THEN a ELSE Gcd(b, a % b)

Num(n) == [num |-> n, den |-> 1]
NaN == [num |-> 0, den |-> 0]
IsNaN(x) == x.den = 0 /\ x.num = 0
IsFinite(x) == x.den > 0

\* n / d
Div(n, d) ==
    IF d = 0 THEN [num |-> Sign(n), den |-> 0]
    ELSE LET g == Gcd(Abs(n), Abs(d))
         IN  [num |-> Sign(d) * (n \div g), den |-> Abs(d) \div g]

\* the sign of x - y (0 when the difference is NaN, as sort takes it)
SignOfDifference(x, y) ==
    IF IsFinite(x) /\ IsFinite(y) THEN Sign(x.num * y.den - y.num * x.den)
    ELSE IF IsNaN(x) \/ IsNaN(y) \/ x = y THEN 0
    ELSE IF IsFinite(y) THEN x.num ELSE -y.num

\* Math.sqrt on the perfect squares the model's vectors produce
Sqrt(n) == CHOOSE r \in 0..n : r * r = n

RECURSIVE SumOver(_, _, _)
SumOver(a, b, i) == IF i > Len(a) THEN 0 ELSE a[i] * b[i] + SumOver(a, b, i + 1)

\* cosineSimilarity testing for the empty vector before comparing the lengths
CosineChecksEmptyFirst(vectorA, vectorB) ==
    IF Len(vectorA) = 0 THEN Return(Num(0))
    ELSE IF Len(vectorA) # Len(vectorB) THEN Throw("Vectors must have the same length")
    ELSE LET dotProduct == SumOver(vectorA, vectorB, 1)
             magnitudeA == Sqrt(SumOver(vectorA, vectorA, 1))
             magnitudeB == Sqrt(SumOver(vectorB, vectorB, 1))
         IN  IF magnitudeA = 0 \/ magnitudeB = 0 THEN Return(Num(0))
             ELSE Return(Div(dotProduct, magnitudeA * magnitudeB))

cosineSimilarity(vectorA, vectorB) ==
    IF Len(vectorA) # Len(vectorB) THEN Throw("Vectors must have the same length")
    ELSE IF Len(vectorA) = 0 THEN Return(Num(0))
    ELSE LET dotProduct == SumOver(vectorA, vectorB, 1)
             magnitudeA == Sqrt(SumOver(vectorA, vectorA, 1))
             magnitudeB == Sqrt(SumOver(vectorB, vectorB, 1))
         IN  IF magnitudeA = 0 \/ magnitudeB = 0 THEN Return(Num(0))
             ELSE Return(Div(dotProduct, magnitudeA * magnitudeB))

\* the comparator with its operands exchanged: ascending order
CompareAscending(a, b) == SignOfDifference(a.similarity, b.similarity)

\* (a, b) => b.similarity - a.similarity, by sign
CompareSimilarity(a, b) == SignOfDifference(b.similarity, a.similarity)

\* Array.prototype.sort is stable: x goes after every element that does not
\* compare greater than it
RECURSIVE InsertSorted(_, _)
InsertSorted(sorted, x) ==
    IF sorted = <<>> THEN <<x>>
    ELSE LET last == sorted[Len(sorted)]
         IN  IF CompareSimilarity(last, x) > 0
             THEN Append(InsertSorted(SubSeq(sorted, 1, Len(sorted) - 1), x), last)
             ELSE Append(sorted, x)

RECURSIVE SortFrom(_, _, _)
SortFrom(array, i, sorted) ==
    IF i > Len(array) THEN sorted
    ELSE SortFrom(array, i + 1, InsertSorted(sorted, array[i]))

Sort(array) == SortFrom(array, 1, <<>>)

\* Array.prototype.slice(start, end): a negative index counts from the end
Slice(array, start, end) ==
    LET len == Len(array)
        Rel(i) == IF i < 0 THEN (IF len + i > 0 THEN len + i ELSE 0)
                  ELSE (IF i < len THEN i ELSE len)
    IN  SubSeq(array, Rel(start) + 1, Rel(end))

(***************************************************************************)
(* findSimilarChunks: the completion, and the caller's array afterwards    *)
(* (map builds a new array, which is the one sort orders in place).        *)
(***************************************************************************)
findSimilarChunks(queryEmbedding, chunkEmbeddings, topK) ==
    LET sims == [i \in 1..Len(chunkEmbeddings) |->
                    cosineSimilarity(queryEmbedding, chunkEmbeddings[i].embedding)]
        similarities == [i \in 1..Len(chunkEmbeddings) |->
                            [id |-> chunkEmbeddings[i].id,
                             text |-> chunkEmbeddings[i].text,
                             similarity |-> sims[i].value]]
    IN  [completion |->
             IF \E i \in 1..Len(chunkEmbeddings) : sims[i].kind = "throw"
             THEN sims[CHOOSE i \in 1..Len(chunkEmbeddings) :
                           /\ sims[i].kind = "throw"
                           /\ \A k \in 1..(i - 1) : sims[k].kind # "throw"]
             ELSE Return(Slice(Sort(similarities), 0, topK)),
         chunkEmbeddings |-> chunkEmbeddings]

(***************************************************************************)
(* The similarity engine applied to bounded vectors and chunk lists.       *)
(***************************************************************************)
MaxChunks == 3
\* topK ranges over -MinTopK..MaxTopK
MinTopK == 2
MaxTopK == 3

Vectors == {<<>>, <<0>>, <<1>>, <<0, 0>>, <<1, 0>>, <<0, 1>>, <<-2, 0>>, <<3, 4>>}

SimChunks ==
    {[id |-> 1, text |-> "a", embedding |-> <<1, 0>>],
     [id |-> 2, text |-> "b", embedding |-> <<0, 1>>],
     [id |-> 3, text |-> "c", embedding |-> <<2, 0>>],
     [id |-> 4, text |-> "d", embedding |-> <<3, 4>>],
     [id |-> 5, text |-> "e", embedding |-> <<0, 0>>],
     [id |-> 6, text |-> "f", embedding |-> <<1>>]}

SeqsUpTo(S, n) == UNION {[1..k -> S] : k \in 0..n}

CosineCalls == [op : {"cosineSimilarity"}, vectorA : Vectors, vectorB : Vectors]

FindCalls ==
    [op : {"findSimilarChunks"},
     queryEmbedding : {<<1, 0>>, <<0, 1>>, <<3, 4>>, <<0, 0>>},
     chunkEmbeddings : SeqsUpTo(SimChunks, MaxChunks),
     topK : (-MinTopK)..MaxTopK]

InitSim ==
    /\ call \in CosineCalls \cup FindCalls
    /\ ret = Pending
    /\ mem = IF call.op = "findSimilarChunks" THEN call.chunkEmbeddings ELSE <<>>
    /\ StoreInit
    /\ RagInit
    /\ UploadInit

CallCosineSimilarity ==
    /\ call.op = "cosineSimilarity"
    /\ ret = Pending
    /\ ret' = cosineSimilarity(call.vectorA, call.vectorB)
    /\ UNCHANGED <<call, mem, documents, latest, rag, upload, uploads, nanoids>>

CallFindSimilarChunks ==
    /\ call.op = "findSimilarChunks"
    /\ ret = Pending
    /\ LET r == findSimilarChunks(call.queryEmbedding, mem, call.topK)
       IN  /\ ret' = r.completion
           /\ mem' = r.chunkEmbeddings
    /\ UNCHANGED <<call, documents, latest, rag, upload, uploads, nanoids>>

NextSim == CallCosineSimilarity \/ CallFindSimilarChunks

SpecSim == InitSim /\ [][NextSim]_vars

(***************************************************************************)
(* The store's methods as called from outside: call and ret record the     *)
(* call and its return value, latest the map the store is meant to be.     *)
(***************************************************************************)
NoCall == [op |-> "none"]

CallStoreDocument ==
    \E documentId \in DocIds, u \in Uploads, now \in Times :
        LET r == storeDocument(documents, documentId, u.filename, u.chunks, now)
        IN  /\ documents' = r.documents
            /\ ret' = Return(r.result)
            /\ call' = [op |-> "storeDocument", documentId |-> documentId,
                        existed |-> latest[documentId] # Absent]
            /\ latest' = [latest EXCEPT ![documentId] = u]
            /\ UNCHANGED <<mem, rag, upload, uploads, nanoids>>

CallGetDocument ==
    \E documentId \in DocIds :
        /\ ret' = Return(getDocument(documents, documentId))
        /\ call' = [op |-> "getDocument", documentId |-> documentId,
                    existed |-> latest[documentId] # Absent]
        /\ UNCHANGED <<mem, documents, latest, rag, upload, uploads, nanoids>>

CallDeleteDocument ==
    \E documentId \in DocIds :
        LET r == deleteDocument(documents, documentId)
        IN  /\ documents' = r.documents
            /\ ret' = Return(r.result)
            /\ call' = [op |-> "deleteDocument", documentId |-> documentId,
                        existed |-> latest[documentId] # Absent]
            /\ latest' = [latest EXCEPT ![documentId] = Absent]
            /\ UNCHANGED <<mem, rag, upload, uploads, nanoids>>

CallGetAllDocuments ==
    /\ ret' = Return(getAllDocuments(documents))
    /\ call' = [op |-> "getAllDocuments"]
    /\ UNCHANGED <<mem, documents, latest, rag, upload, uploads, nanoids>>

CallClearAll ==
    LET r == clearAll(documents)
    IN  /\ documents' = r.documents
        /\ ret' = Return(r.result)
        /\ call' = [op |-> "clearAll"]
        /\ latest' = [id \in DocIds |-> Absent]
        /\ UNCHANGED <<mem, rag, upload, uploads, nanoids>>

InitStore ==
    /\ call = NoCall
    /\ ret = Pending
    /\ mem = <<>>
    /\ StoreInit
    /\ RagInit
    /\ UploadInit

NextStore ==
    \/ CallStoreDocument
    \/ CallGetDocument
    \/ CallDeleteDocument
    \/ CallGetAllDocuments
    \/ CallClearAll

SpecStore == InitStore /\ [][NextStore]_vars

(***************************************************************************)
(* getRAGContext.  The repository holds it twice: lib/pdf/rag.ts, and an   *)
(* earlier text of the same file that does not test for a document         *)
(* without chunks.  Each runs to its await of embed, or to its return; the *)
(* rest runs when embed settles.                                           *)
(***************************************************************************)
DefaultTopK == 3
MaxRetrieved == 10

Queries == {"what"}
RagTopKs == {-1, 1, DefaultTopK, MaxRetrieved + 1}
\* the embeddings the provider gives a query
QueryVectors == {<<1, 0>>, <<0, 1>>}

RagReturns(variant, query, documentId, topK, document, completion) ==
    [pc |-> "done", variant |-> variant, query |-> query, documentId |-> documentId,
     topK |-> topK, document |-> document, embedCalls |-> 0,
     embedded |-> Pending, result |-> completion, storeAtReturn |-> "same"]

RagAwaitsEmbed(variant, query, documentId, topK, document) ==
    [pc |-> "awaitEmbed", variant |-> variant, query |-> query,
     documentId |-> documentId, topK |-> topK, document |-> document,
     embedCalls |-> 1, embedded |-> Pending, result |-> Pending,
     storeAtReturn |-> "unread"]

\* a catch clause that hands the error on
CatchRethrows(completion) == completion

\* try { ... } catch (error) { return null; }
CatchReturnsNull(completion) ==
    IF completion.kind = "throw" THEN Return(Null) ELSE completion

\* lib/pdf/rag.ts, to the await
getRAGContext(docs, query, documentId, topK) ==
    LET document == getDocument(docs, documentId)
    IN  IF document = Undefined
        THEN RagReturns("rag.ts", query, documentId, topK, document,
                        CatchReturnsNull(Return(Null)))
        ELSE IF Len(document.chunks) = 0
        THEN RagReturns("rag.ts", query, documentId, topK, document,
                        CatchReturnsNull(Return(Null)))
        ELSE RagAwaitsEmbed("rag.ts", query, documentId, topK, document)

\* the earlier text, to the await
getRAGContextEarlier(docs, query, documentId, topK) ==
    LET document == getDocument(docs, documentId)
    IN  IF document = Undefined
        THEN RagReturns("earlier", query, documentId, topK, document,
                        CatchReturnsNull(Return(Null)))
        ELSE RagAwaitsEmbed("earlier", query, documentId, topK, document)

Math_min(a, b) == IF a < b THEN a ELSE b

\* both texts, from the await on
getRAGContextResume(r, embedded) ==
    LET body ==
            IF embedded.kind = "throw" THEN embedded
            ELSE LET similarChunks ==
                         findSimilarChunks(embedded.value, r.document.chunks,
                                           Math_min(r.topK, MaxRetrieved)).completion
                 IN  IF similarChunks.kind = "throw" THEN similarChunks
                     ELSE Return([documentId |-> r.documentId,
                                  filename |-> r.document.filename,
                                  relevantChunks |->
                                      [i \in 1..Len(similarChunks.value) |->
                                          [text |-> similarChunks.value[i].text,
                                           similarity |->
                                               similarChunks.value[i].similarity]]])
    IN  [r EXCEPT !.pc = "done",
                  !.embedded = embedded,
                  !.result = CatchReturnsNull(body)]

RagCall ==
    /\ rag.pc = "idle"
    /\ \E query \in Queries, documentId \in DocIds, topK \in RagTopKs :
           rag' = getRAGContext(documents, query, documentId, topK)
    /\ UNCHANGED <<call, ret, mem, documents, latest, upload, uploads, nanoids>>

RagCallEarlier ==
    /\ rag.pc = "idle"
    /\ \E query \in Queries, documentId \in DocIds, topK \in RagTopKs :
           rag' = getRAGContextEarlier(documents, query, documentId, topK)
    /\ UNCHANGED <<call, ret, mem, documents, latest, upload, uploads, nanoids>>

\* history: what the store holds for the id of the call, against the record
\* the call read
StoreAgainst(docs, r) ==
    LET now == getDocument(docs, r.documentId)
    IN  IF now = r.document THEN "same"
        ELSE IF now = Undefined THEN "deleted"
        ELSE "overwritten"

\* the rest of the call taking the filename from the store again, when the
\* id is still there
RagEmbedResolvesRereadsFilename ==
    /\ rag.pc = "awaitEmbed"
    /\ \E embedding \in QueryVectors :
           LET now == getDocument(documents, rag.documentId)
               document == IF now = Undefined THEN rag.document
                           ELSE [rag.document EXCEPT !.filename = now.filename]
           IN  rag' = [getRAGContextResume([rag EXCEPT !.document = document],
                                           Return(embedding))
                          EXCEPT !.storeAtReturn = StoreAgainst(documents, rag)]
    /\ UNCHANGED <<call, ret, mem, documents, latest, upload, uploads, nanoids>>

RagEmbedResolves ==
    /\ rag.pc = "awaitEmbed"
    /\ \E embedding \in QueryVectors :
           rag' = [getRAGContextResume(rag, Return(embedding))
                      EXCEPT !.storeAtReturn = StoreAgainst(documents, rag)]
    /\ UNCHANGED <<call, ret, mem, documents, latest, upload, uploads, nanoids>>

RagEmbedRejects ==
    /\ rag.pc = "awaitEmbed"
    /\ rag' = [getRAGContextResume(rag, Throw("embed failed"))
                  EXCEPT !.storeAtReturn = StoreAgainst(documents, rag)]
    /\ UNCHANGED <<call, ret, mem, documents, latest, upload, uploads, nanoids>>

Init == InitStore

Next ==
    \/ CallStoreDocument
    \/ CallDeleteDocument
    \/ CallClearAll
    \/ RagCall
    \/ RagCallEarlier
    \/ RagEmbedResolves
    \/ RagEmbedRejects

Spec == Init /\ [][Next]_vars

(***************************************************************************)
(* formatRAGContext.  The filename and the chunk texts of a context are    *)
(* written as literals; the string returned is the sequence of its         *)
(* characters.                                                             *)
(***************************************************************************)
\* the characters of a literal
Chars(s) == [i \in 1..Len(s) |-> SubSeq(s, i, i)]

\* Array.prototype.join
RECURSIVE ArrayJoin(_, _)
ArrayJoin(array, separator) ==
    IF Len(array) = 0 THEN <<>>
    ELSE IF Len(array) = 1 THEN array[1]
    ELSE array[1] \o separator \o ArrayJoin(Tail(array), separator)

\* the texts joined by a line feed alone, with no blank line between them
FormatJoinsWithLineFeed(ragContext) ==
    IF ragContext \in {Null, Undefined} THEN <<>>
    ELSE IF Len(ragContext.relevantChunks) = 0 THEN <<>>
    ELSE LET contextText ==
                 ArrayJoin([i \in 1..Len(ragContext.relevantChunks) |->
                               Chars(ragContext.relevantChunks[i].text)],
                           Chars("\n"))
         IN  Chars("Use the following PDF context (from \"")
             \o Chars(ragContext.filename)
             \o Chars("\") to answer the user's question accurately:\n\n<pdf_context>\n")
             \o contextText
             \o Chars("\n</pdf_context>\n\n")

formatRAGContext(ragContext) ==
    IF ragContext \in {Null, Undefined} THEN <<>>
    ELSE IF Len(ragContext.relevantChunks) = 0 THEN <<>>
    ELSE LET contextText ==
                 ArrayJoin([i \in 1..Len(ragContext.relevantChunks) |->
                               Chars(ragContext.relevantChunks[i].text)],
                           Chars("\n\n"))
         IN  Chars("Use the following PDF context (from \"")
             \o Chars(ragContext.filename)
             \o Chars("\") to answer the user's question accurately:\n\n<pdf_context>\n")
             \o contextText
             \o Chars("\n</pdf_context>\n\n")

(***************************************************************************)
(* The formatter applied to no context and to every bounded context.       *)
(***************************************************************************)
MaxRelevantChunks == 3

\* chunk texts: empty, one word, and one that holds a blank line itself
RelevantChunks ==
    [text : {"", "hello", "a\n\nb"}, similarity : {Num(1), Div(3, 5)}]

RAGContexts ==
    {Null, Undefined}
    \cup [documentId : {"doc1"}, filename : {"x.pdf", "y.pdf"},
          relevantChunks : SeqsUpTo(RelevantChunks, MaxRelevantChunks)]

FormatCalls == [op : {"formatRAGContext"}, ragContext : RAGContexts]

InitFormat ==
    /\ call \in FormatCalls
    /\ ret = Pending
    /\ mem = <<>>
    /\ StoreInit
    /\ RagInit
    /\ UploadInit

CallFormatRAGContext ==
    /\ call.op = "formatRAGContext"
    /\ ret = Pending
    /\ ret' = Return(formatRAGContext(call.ragContext))
    /\ UNCHANGED <<call, mem, documents, latest, rag, upload, uploads, nanoids>>

NextFormat == CallFormatRAGContext

SpecFormat == InitFormat /\ [][NextFormat]_vars

(***************************************************************************)
(* The upload handler POST.  The repository holds it twice: the route      *)
(* reading the file with pdf-parse (in lib/pdf/storage.ts) and the route   *)
(* reading it with pdfjs (api/pdf/upload/route.ts).  A request runs to its *)
(* response or to its await of Promise.all over the embed calls of the     *)
(* chunks; the awaits before that one touch nothing shared and are part of *)
(* the same step.  Each embed call settles on its own; the handler goes on *)
(* when the last one is fulfilled or the first one is rejected.            *)
(***************************************************************************)
MaxUploads == 2

Json(status, body) == [kind |-> "json", status |-> status, body |-> body]
ChatSDKErrorResponse(code) == [kind |-> "ChatSDKError", code |-> code]

\* one word as long as the largest chunk
LongWord(c) == [i \in 1..DefaultMaxChunkSize |-> c]

\* what the reader finds in the file: no text, blanks, one word, and texts
\* that chunkText cuts in two and in three
ExtractedTexts ==
    {<<>>, <<" ", "\n">>, <<"a", " ", "b">>,
     LongWord("a") \o <<" ", "b">>,
     <<"b", " ">> \o LongWord("a") \o <<"\n", "b", " ", "a">>}

\* the request: the session, the file of the form and what reading it gives
UploadRequests ==
    [session : {Null, [user |-> "u1"]},
     file : {Null} \cup [name : {"x.pdf"}, type : {"application/pdf", "text/plain"}],
     parsed : {Throw("FormatError"), Throw("other")}
              \cup {Return(t) : t \in ExtractedTexts}]

\* the embedding the provider gives a chunk, when it gives one: the same
\* for the same text
EmbeddingOf(text) ==
    IF Len(text) >= DefaultMaxChunkSize THEN <<1, 0>>
    ELSE IF Len(text) > 1 THEN <<3, 4>>
    ELSE <<0, 1>>

\* file.type.includes("pdf")
IsPdfType(type) == type \in {"application/pdf"}

\* isPDFParsingError
isPDFParsingError(error) == error \in {"FormatError"}

UploadResponds(variant, response) ==
    [pc |-> "done", variant |-> variant, filename |-> "", chunks |-> <<>>,
     embeds |-> <<>>, response |-> response]

UploadAwaitsAll(variant, filename, chunks) ==
    [pc |-> "awaitAll", variant |-> variant, filename |-> filename,
     chunks |-> chunks, embeds |-> [i \in 1..Len(chunks) |-> Pending],
     response |-> Pending]

\* the outer catch: the errors here are no ChatSDKError
UploadCatch(variant) ==
    Json(500, [error |-> IF variant = "pdf-parse"
                         THEN "Failed to process PDF. Please try again later."
                         ELSE "Failed to process PDF"])

\* from the text of the file to the await of Promise.all
UploadChunks(variant, filename, fullText, noText, noChunks) ==
    IF Trim(fullText) = <<>> THEN UploadResponds(variant, Json(400, noText))
    ELSE LET chunks == chunkText(fullText, DefaultMinChunkSize, DefaultMaxChunkSize)
         IN  IF Len(chunks) = 0 THEN UploadResponds(variant, Json(400, noChunks))
             ELSE UploadAwaitsAll(variant, filename, chunks)

UploadValidates(variant, request) ==
    IF request.session = Null
    THEN UploadResponds(variant, ChatSDKErrorResponse("unauthorized:chat"))
    ELSE IF request.file = Null
    THEN UploadResponds(variant, Json(400, [error |-> "No file provided"]))
    ELSE IF ~IsPdfType(request.file.type)
    THEN UploadResponds(variant, Json(400, [error |-> "Only PDF files are allowed"]))
    ELSE Pending

Unreadable(details) ==
    [error |-> "This PDF cannot be read. Please upload a text-based PDF.",
     details |-> details]

\* POST of the pdf-parse route, to the await of Promise.all
POST(request) ==
    LET variant == "pdf-parse"
        early == UploadValidates(variant, request)
    IN  IF early # Pending THEN early
        ELSE IF request.parsed.kind = "throw"
        THEN IF isPDFParsingError(request.parsed.error)
             THEN UploadResponds(variant, Json(400, Unreadable(
                      "The PDF file is corrupted or uses an unsupported format.")))
             ELSE UploadResponds(variant, UploadCatch(variant))
        ELSE UploadChunks(variant, request.file.name, request.parsed.value,
            Unreadable("No text content found. The PDF may be a scanned image without OCR."),
            Unreadable("Failed to extract meaningful content from the PDF."))

\* POST of the pdfjs route, to the await of Promise.all; the file has one
\* page, whose text is followed by a line feed
POSTPdfjs(request) ==
    LET variant == "pdfjs"
        early == UploadValidates(variant, request)
    IN  IF early # Pending THEN early
        ELSE IF request.parsed.kind = "throw"
        THEN UploadResponds(variant, UploadCatch(variant))
        ELSE UploadChunks(variant, request.file.name,
                          request.parsed.value \o <<"\n">>,
                          [error |-> "No text could be extracted from the PDF"],
                          [error |-> "Failed to process PDF text"])

\* a join that drops the rejected calls and keeps the fulfilled ones
PromiseAllKeepsFulfilled(embeds) ==
    IF \E i \in 1..Len(embeds) : embeds[i].kind = "pending" THEN Pending
    ELSE Return([i \in 1..Cardinality({j \in 1..Len(embeds) : embeds[j].kind = "return"})
                   |-> embeds[Kth({j \in 1..Len(embeds) : embeds[j].kind = "return"}, i)].value])

\* Promise.all: rejected with the first rejection, fulfilled with the values
\* in the order of the calls once all are fulfilled
PromiseAll(embeds) ==
    IF \E i \in 1..Len(embeds) : embeds[i].kind = "throw"
    THEN Throw("embed failed")
    ELSE IF \A i \in 1..Len(embeds) : embeds[i].kind = "return"
    THEN Return([i \in 1..Len(embeds) |-> embeds[i].value])
    ELSE Pending

\* the handler after its await of Promise.all, with the embed calls as they
\* are now: what becomes of the request, the store and nanoid's count
UploadResume(u, docs, ids, now) ==
    LET all == PromiseAll(u.embeds)
    IN  IF u.pc # "awaitAll" \/ all.kind = "pending"
        THEN [upload |-> u, documents |-> docs, nanoids |-> ids]
        ELSE IF all.kind = "throw"
        THEN [upload |-> [u EXCEPT !.pc = "done", !.response = UploadCatch(u.variant)],
              documents |-> docs, nanoids |-> ids]
        ELSE LET documentId == ids + 1
                 embeddedChunks == all.value
             IN  [upload |-> [u EXCEPT !.pc = "done",
                                       !.response =
                                           Json(200, [success |-> TRUE,
                                                      documentId |-> documentId,
                                                      filename |-> u.filename,
                                                      chunkCount |-> Len(embeddedChunks)])],
                  documents |-> storeDocument(docs, documentId, u.filename,
                                              embeddedChunks, now).documents,
                  nanoids |-> ids + 1]

UploadArrives ==
    /\ upload.pc = "idle"
    /\ uploads < MaxUploads
    /\ uploads' = uploads + 1
    /\ \E request \in UploadRequests : upload' = POST(request)
    /\ UNCHANGED <<call, ret, mem, documents, latest, rag, nanoids>>

UploadArrivesPdfjs ==
    /\ upload.pc = "idle"
    /\ uploads < MaxUploads
    /\ uploads' = uploads + 1
    /\ \E request \in UploadRequests : upload' = POSTPdfjs(request)
    /\ UNCHANGED <<call, ret, mem, documents, latest, rag, nanoids>>

\* the embed call of chunk i is fulfilled: its chunk gets an id
UploadEmbedResolves ==
    \E i \in 1..Len(upload.embeds), now \in Times :
        /\ upload.embeds[i] = Pending
        /\ LET chunk == [id |-> nanoids + 1, text |-> upload.chunks[i],
                         embedding |-> EmbeddingOf(upload.chunks[i])]
               r == UploadResume([upload EXCEPT !.embeds[i] = Return(chunk)],
                                 documents, nanoids + 1, now)
           IN  /\ upload' = r.upload
               /\ documents' = r.documents
               /\ nanoids' = r.nanoids
        /\ UNCHANGED <<call, ret, mem, latest, rag, uploads>>

\* the embed call of chunk i is rejected
UploadEmbedRejects ==
    \E i \in 1..Len(upload.embeds), now \in Times :
        /\ upload.embeds[i] = Pending
        /\ LET r == UploadResume([upload EXCEPT !.embeds[i] = Throw("embed failed")],
                                 documents, nanoids, now)
           IN  /\ upload' = r.upload
               /\ documents' = r.documents
               /\ nanoids' = r.nanoids
        /\ UNCHANGED <<call, ret, mem, latest, rag, uploads>>

\* the response is sent and every embed call has settled: the next request
UploadEnds ==
    /\ upload.pc = "done"
    /\ \A i \in 1..Len(upload.embeds) : upload.embeds[i] # Pending
    /\ uploads < MaxUploads
    /\ upload' = UploadIdle
    /\ UNCHANGED <<call, ret, mem, documents, latest, rag, uploads, nanoids>>

InitUpload == InitStore

NextUpload ==
    \/ UploadArrives
    \/ UploadArrivesPdfjs
    \/ UploadEmbedResolves
    \/ UploadEmbedRejects
    \/ UploadEnds

SpecUpload == InitUpload /\ [][NextUpload]_vars

(***************************************************************************)
(* Reference notions for the chunker's properties, defined on the          *)
(* characters of the text and not through Split.                           *)
(***************************************************************************)
\* the text with every whitespace run collapsed to one space and none at
\* either end
RECURSIVE Collapse(_, _, _)
Collapse(text, i, acc) ==
    IF i > Len(text) THEN acc
    ELSE IF IsWs(text[i])
         THEN Collapse(text, i + 1,
                       IF acc # <<>> /\ acc[Len(acc)] # " " THEN Append(acc, " ") ELSE acc)
         ELSE Collapse(text, i + 1, Append(acc, text[i]))

Normalize(text) ==
    LET c == Collapse(text, 1, <<>>)
    IN  IF c # <<>> /\ c[Len(c)] = " " THEN SubSeq(c, 1, Len(c) - 1) ELSE c

RECURSIVE JoinWith(_, _)
JoinWith(strings, sep) ==
    IF strings = <<>> THEN <<>>
    ELSE IF Len(strings) = 1 THEN strings[1]
    ELSE strings[1] \o sep \o JoinWith(Tail(strings), sep)

IsWord(s) == s # <<>> /\ \A i \in 1..Len(s) : ~IsWs(s[i])

\* the maximal whitespace-free substrings of the text
MaximalWords(text) ==
    {SubSeq(text, p[1], p[2]) :
        p \in {q \in (1..Len(text)) \X (1..Len(text)) :
                 /\ q[1] <= q[2]
                 /\ \A k \in q[1]..q[2] : ~IsWs(text[k])
                 /\ (q[1] = 1 \/ IsWs(text[q[1] - 1]))
                 /\ (q[2] = Len(text) \/ IsWs(text[q[2] + 1]))}}

ChunkReturned == call.op = "chunkText" /\ ret.kind = "return"

\* C1: for maxSize >= 1 the chunks of chunkText, joined with single spaces,
\* are exactly the whitespace-normalized input: no word is lost, duplicated,
\* reordered or split.
ChunksRejoinToNormalizedText ==
    (ChunkReturned /\ call.maxChunkSize >= 1)
        => JoinWith(ret.value, <<" ">>) = Normalize(call.text)

\* chunkText has cut a text with irregular whitespace into several chunks
ChunksRejoinWitness ==
    /\ ChunkReturned
    /\ call.maxChunkSize >= 1
    /\ Len(ret.value) >= 2
    /\ Len(call.text) > Len(JoinWith(ret.value, <<" ">>))

\* C2: every chunk is at most maxSize long unless it is exactly one word that
\* is itself longer than maxSize; every such word of the input is a chunk of
\* its own, merged with no neighbour.
ChunksWithinMaxSize ==
    ChunkReturned =>
        /\ \A i \in 1..Len(ret.value) :
              \/ Len(ret.value[i]) <= call.maxChunkSize
              \/ IsWord(ret.value[i])
        /\ \A w \in MaximalWords(call.text) :
              Len(w) > call.maxChunkSize => \E i \in 1..Len(ret.value) : ret.value[i] = w

\* an over-long word became a chunk of its own between other chunks
ChunksWithinMaxSizeWitness ==
    /\ ChunkReturned
    /\ call.maxChunkSize >= 2
    /\ Len(ret.value) >= 2
    /\ \E i \in 1..Len(ret.value) : Len(ret.value[i]) > call.maxChunkSize
    /\ \E i \in 1..Len(ret.value) : Len(ret.value[i]) <= call.maxChunkSize

IsBlank(text) == \A k \in 1..Len(text) : IsWs(text[k])

\* C12: every chunk chunkText returns has at least one character, also when
\* whitespace at the start or the end of the text leaves empty pieces in the
\* split; the empty text and a text of whitespace alone give no chunks.
ChunksAreNeverEmpty ==
    ChunkReturned =>
        /\ \A i \in 1..Len(ret.value) : Len(ret.value[i]) > 0
        /\ IsBlank(call.text) => ret.value = <<>>

\* a text of nothing but whitespace, of both kinds, gave no chunks
ChunksAreNeverEmptyWitness ==
    /\ ChunkReturned
    /\ Len(call.text) >= 2
    /\ IsBlank(call.text)
    /\ \E i, j \in 1..Len(call.text) : call.text[i] # call.text[j]
    /\ ret.value = <<>>

(***************************************************************************)
(* Properties of the similarity engine.                                    *)
(***************************************************************************)
FindReturned == call.op = "findSimilarChunks" /\ ret.kind = "return"

Smaller(a, b) == IF a < b THEN a ELSE b

\* C3: for topK >= 0 findSimilarChunks returns min(topK, len(chunks)) entries
\* in descending similarity, each the id and text of a distinct input chunk
\* with its similarity, equal similarities in their input order; the input
\* sequence is left as it was.
FindSimilarRanksStably ==
    (FindReturned /\ call.topK >= 0) =>
        LET chunks == call.chunkEmbeddings
            res == ret.value
            n == Len(chunks)
            k == Len(res)
            SimOf(j) == cosineSimilarity(call.queryEmbedding, chunks[j].embedding).value
        IN  /\ k = Smaller(call.topK, n)
            /\ \A i \in 1..(k - 1) :
                  SignOfDifference(res[i].similarity, res[i + 1].similarity) >= 0
            /\ \E f \in [1..k -> 1..n] :
                  /\ \A i \in 1..k :
                        res[i] = [id |-> chunks[f[i]].id, text |-> chunks[f[i]].text,
                                  similarity |-> SimOf(f[i])]
                  /\ \A i \in 1..k : \A j \in (i + 1)..k :
                        /\ f[i] # f[j]
                        /\ res[i].similarity = res[j].similarity => f[i] < f[j]
            /\ mem = chunks

\* a ranking that reordered the input, cut it to topK and kept a tie
FindSimilarWitness ==
    /\ FindReturned
    /\ call.topK >= 2
    /\ Len(ret.value) = call.topK
    /\ Len(call.chunkEmbeddings) > call.topK
    /\ ret.value[1].id # call.chunkEmbeddings[1].id
    /\ ret.value[1].similarity = ret.value[2].similarity
    /\ ret.value[1].id # ret.value[2].id

\* C4: a topK of 0 or less gives no chunks, whatever the number of chunks.
NonPositiveTopKGivesNothing ==
    (FindReturned /\ call.topK <= 0) => ret.value = <<>>

IsZeroVector(v) == \A i \in 1..Len(v) : v[i] = 0

\* C10: cosineSimilarity raises whenever the lengths differ, also for an empty
\* or zero vector, and otherwise returns a number, which is 0 when a vector
\* is empty or has zero magnitude: never the NaN of a division by zero.
CosineRaisesOrIsDefined ==
    (call.op = "cosineSimilarity" /\ ret # Pending) =>
        /\ Len(call.vectorA) # Len(call.vectorB) => ret.kind = "throw"
        /\ Len(call.vectorA) = Len(call.vectorB) =>
              /\ ret.kind = "return"
              /\ IsFinite(ret.value)
              /\ (IsZeroVector(call.vectorA) \/ IsZeroVector(call.vectorB))
                    => ret.value = Num(0)

\* the empty vector against a longer one was refused
CosineWitness ==
    /\ call.op = "cosineSimilarity"
    /\ call.vectorA = <<>>
    /\ Len(call.vectorB) > 0
    /\ ret.kind = "throw"

(***************************************************************************)
(* Properties of the document store.                                       *)
(***************************************************************************)
\* C5: the store is a map from id to document: getDocument(id) gives the
\* filename and chunks of the last storeDocument(id, ...) that no
\* deleteDocument(id) or clearAll followed, and nothing otherwise; ids stay
\* unique under overwriting; deleteDocument(id) returns true exactly when id
\* had an entry, and removes that entry alone.
StoreIsAMap ==
    /\ \A i, j \in 1..Len(documents) : documents[i].key = documents[j].key => i = j
    /\ \A id \in DocIds :
          LET d == getDocument(documents, id)
          IN  IF latest[id] = Absent THEN d = Undefined
              ELSE /\ d # Undefined
                   /\ d.id = id
                   /\ d.filename = latest[id].filename
                   /\ d.chunks = latest[id].chunks
    /\ call.op = "deleteDocument" => ret = Return(call.existed)
    /\ call.op = "getDocument" =>
          /\ ret.value = getDocument(documents, call.documentId)
          /\ (ret.value = Undefined) = ~call.existed
    /\ call.op = "storeDocument" =>
          ret.value = getDocument(documents, call.documentId)
    /\ call.op = "getAllDocuments" =>
          /\ Len(ret.value) = Cardinality({id \in DocIds : latest[id] # Absent})
          /\ \A id \in DocIds :
                latest[id] # Absent =>
                    \E i \in 1..Len(ret.value) :
                        ret.value[i] = getDocument(documents, id)
    /\ call.op = "clearAll" => documents = <<>>

\* a document was stored over an earlier one while another id kept its own
StoreOverwriteWitness ==
    /\ call.op = "storeDocument"
    /\ call.existed
    /\ Len(documents) = 2
    /\ \E id \in DocIds : id # call.documentId /\ latest[id] # Absent

(***************************************************************************)
(* Properties of getRAGContext.                                            *)
(***************************************************************************)
RagLookedUpNothing ==
    /\ rag.pc # "idle"
    /\ (rag.document = Undefined \/ Len(rag.document.chunks) = 0)

\* C6: when the id is not in the store, or its document has no chunks,
\* getRAGContext returns null, raises nothing and has not called the
\* embedding provider.
RagAbsentWithoutEmbedding ==
    RagLookedUpNothing =>
        /\ rag.pc = "done"
        /\ rag.result = Return(Null)
        /\ rag.embedCalls = 0

\* the same of lib/pdf/rag.ts alone
RagAbsentWithoutEmbeddingInRagTs ==
    (RagLookedUpNothing /\ rag.variant = "rag.ts") =>
        /\ rag.pc = "done"
        /\ rag.result = Return(Null)
        /\ rag.embedCalls = 0

RagEmbedFailed == rag.pc = "done" /\ rag.embedded.kind = "throw"

\* C7: getRAGContext never raises; when the embedding of the query fails it
\* returns null; no step of it changes the store.
RagNeverRaises ==
    /\ [](rag.pc = "done" =>
            /\ rag.result.kind = "return"
            /\ RagEmbedFailed => rag.result = Return(Null))
    /\ [][rag' # rag => documents' = documents]_vars

\* the embedding of the query failed for a document that has chunks
RagEmbedFailedWitness ==
    /\ RagEmbedFailed
    /\ rag.embedCalls = 1
    /\ Len(rag.document.chunks) > 0
    /\ getDocument(documents, rag.documentId) = rag.document

RagRanked ==
    /\ rag.pc = "done"
    /\ rag.document # Undefined
    /\ Len(rag.document.chunks) >= 1
    /\ rag.embedded.kind = "return"

\* C8: for a stored document with a chunk and an embedded query the result
\* carries the requested id, the stored filename and the text and similarity
\* of findSimilarChunks(queryVector, document.chunks, min(topK, 10)), in that
\* order, so never more than 10 entries; for chunks (a, [1,0]), (b, [0,1]),
\* query vector [1,0] and topK = 1 it is the one entry a with similarity 1.
RagContextIsTheRanking ==
    RagRanked =>
        LET found == findSimilarChunks(rag.embedded.value, rag.document.chunks,
                                       Math_min(rag.topK, MaxRetrieved)).completion
            context == rag.result.value
        IN  /\ rag.result.kind = "return"
            /\ context # Null
            /\ context.documentId = rag.documentId
            /\ context.filename = rag.document.filename
            /\ found.kind = "return"
            /\ context.relevantChunks =
                   [i \in 1..Len(found.value) |->
                       [text |-> found.value[i].text,
                        similarity |-> found.value[i].similarity]]
            /\ Len(context.relevantChunks) <= MaxRetrieved
            /\ (/\ [i \in 1..Len(rag.document.chunks) |->
                       <<rag.document.chunks[i].text, rag.document.chunks[i].embedding>>]
                       = <<<<"a", <<1, 0>>>>, <<"b", <<0, 1>>>>>>
                /\ rag.embedded.value = <<1, 0>>
                /\ rag.topK = 1)
               => context.relevantChunks = <<[text |-> "a", similarity |-> Num(1)]>>

\* the same without the limit of 10 entries
RagContextIsTheRankingUnlimited ==
    RagRanked =>
        LET found == findSimilarChunks(rag.embedded.value, rag.document.chunks,
                                       Math_min(rag.topK, MaxRetrieved)).completion
            context == rag.result.value
        IN  /\ rag.result.kind = "return"
            /\ context # Null
            /\ context.documentId = rag.documentId
            /\ context.filename = rag.document.filename
            /\ found.kind = "return"
            /\ context.relevantChunks =
                   [i \in 1..Len(found.value) |->
                       [text |-> found.value[i].text,
                        similarity |-> found.value[i].similarity]]

\* C13: whatever the other requests do to the store while the embed call is
\* pending, getRAGContext works on the record it read at its lookup: the
\* lookup reads the store's entry for the id; the record stays the call's
\* own until it returns; the context returned has that record's filename
\* and the ranking of that record's chunks, and is null only when the embed
\* call or the ranking failed; and no step of the call changes the store.
RagUsesTheRecordItRead ==
    /\ [][(rag.pc = "idle" /\ rag'.pc # "idle") =>
            rag'.document = getDocument(documents, rag'.documentId)]_vars
    /\ [][rag.pc = "awaitEmbed" =>
            /\ rag'.document = rag.document
            /\ rag'.documentId = rag.documentId
            /\ rag'.pc \in {"awaitEmbed", "done"}
            /\ rag'.pc = "awaitEmbed" => rag' = rag
            /\ rag'.pc = "done" =>
                  IF rag'.embedded.kind = "throw" THEN rag'.result = Return(Null)
                  ELSE \A found \in
                           {findSimilarChunks(rag'.embedded.value, rag.document.chunks,
                                              Math_min(rag.topK, MaxRetrieved)).completion} :
                           IF found.kind = "throw" THEN rag'.result = Return(Null)
                           ELSE rag'.result =
                                    Return([documentId |-> rag.documentId,
                                            filename |-> rag.document.filename,
                                            relevantChunks |->
                                                [i \in 1..Len(found.value) |->
                                                    [text |-> found.value[i].text,
                                                     similarity |->
                                                         found.value[i].similarity]]])]_vars
    /\ [][rag' # rag => documents' = documents /\ latest' = latest]_vars

\* a call returned the context of the record it had read although, while its
\* embed call was pending, another document had been stored under its id
RagOverwrittenWitness ==
    /\ rag.pc = "done"
    /\ rag.embedded.kind = "return"
    /\ rag.result.kind = "return"
    /\ rag.result.value # Null
    /\ rag.storeAtReturn = "overwritten"
    /\ rag.result.value.filename = rag.document.filename
    /\ Len(rag.result.value.relevantChunks) >= 2

\* the same for a document deleted while the embed call was pending
RagDeletedWitness ==
    /\ rag.pc = "done"
    /\ rag.result.kind = "return"
    /\ rag.result.value # Null
    /\ rag.storeAtReturn = "deleted"

(***************************************************************************)
(* Properties of the upload handler.                                       *)
(***************************************************************************)
UploadEmbedFailed ==
    \E i \in 1..Len(upload.embeds) : upload.embeds[i].kind = "throw"

UploadSucceeded ==
    /\ upload.pc = "done"
    /\ upload.response.kind = "json"
    /\ upload.response.status = 200

\* C9: ingestion is all or nothing.  Once an embed call of a request has
\* failed, the request has ended with status 500; a success response means
\* every embed call was fulfilled; and the store changes only in the step
\* that ends a request with success, by one document whose chunks are the
\* chunker's texts, one each and in their order, with the embedding given to
\* each, whatever the order in which the calls were fulfilled.
UploadAllOrNothing ==
    /\ [](/\ UploadEmbedFailed =>
                /\ upload.pc = "done"
                /\ upload.response = UploadCatch(upload.variant)
                /\ upload.response.status >= 500
          /\ UploadSucceeded =>
                \A i \in 1..Len(upload.embeds) : upload.embeds[i].kind = "return")
    /\ [][documents' # documents =>
            /\ upload.pc = "awaitAll"
            /\ upload'.pc = "done"
            /\ upload'.response.kind = "json"
            /\ upload'.response.status = 200
            /\ \A i \in 1..Len(upload'.embeds) : upload'.embeds[i].kind = "return"
            /\ Len(documents') = Len(documents) + 1
            /\ SubSeq(documents', 1, Len(documents)) = documents
            /\ LET stored == documents'[Len(documents')].value
               IN  /\ stored.filename = upload.filename
                   /\ stored.id = upload'.response.body.documentId
                   /\ Len(stored.chunks) = Len(upload.chunks)
                   /\ upload'.response.body.chunkCount = Len(upload.chunks)
                   /\ \A i \in 1..Len(stored.chunks) :
                         /\ stored.chunks[i].text = upload.chunks[i]
                         /\ stored.chunks[i] = upload'.embeds[i].value]_vars

\* a request failed on one embed call after another of its calls had been
\* fulfilled, and the store holds just the document of an earlier request
\* whose calls were fulfilled out of order
UploadAllOrNothingWitness ==
    /\ upload.pc = "done"
    /\ upload.response.kind = "json"
    /\ upload.response.status = 500
    /\ UploadEmbedFailed
    /\ \E i \in 1..Len(upload.embeds) : upload.embeds[i].kind = "return"
    /\ Len(documents) = 1
    /\ Len(documents[1].value.chunks) >= 2
    /\ documents[1].value.chunks[1].id > documents[1].value.chunks[2].id

(***************************************************************************)
(* Properties of formatRAGContext, stated on the positions of the          *)
(* characters of the string returned.                                      *)
(***************************************************************************)
FormatReturned == call.op = "formatRAGContext" /\ ret.kind = "return"

\* part lies in s right after the first p characters of s
OccursAt(s, part, p) ==
    /\ p + Len(part) <= Len(s)
    /\ SubSeq(s, p + 1, p + Len(part)) = part

Occurs(s, part) == \E p \in 0..Len(s) : OccursAt(s, part, p)

TemplateHead == Chars("Use the following PDF context (from \"")
TemplateNeck ==
    Chars("\") to answer the user's question accurately:")
    \o <<"\n", "\n">> \o Chars("<pdf_context>") \o <<"\n">>
TemplateFoot == <<"\n">> \o Chars("</pdf_context>") \o <<"\n", "\n">>
BlankLine == <<"\n", "\n">>

\* C11: formatRAGContext returns the empty string for no context and for a
\* context without relevant chunks.  Otherwise the string is the template's
\* head, the filename, the template's neck, then the texts of the relevant
\* chunks in their order with a blank line between each two, then the
\* template's foot, and nothing else: every character of the result is fixed
\* by the input, so equal inputs give equal results.
FormatIsTheTemplate ==
    FormatReturned =>
        LET c == call.ragContext
            out == ret.value
        IN  IF c \in {Null, Undefined} THEN out = <<>>
            ELSE IF Len(c.relevantChunks) = 0 THEN out = <<>>
            ELSE LET n == Len(c.relevantChunks)
                     filename == Chars(c.filename)
                     text(i) == Chars(c.relevantChunks[i].text)
                     start == Len(TemplateHead) + Len(filename) + Len(TemplateNeck)
                     At[i \in 1..n] ==
                         IF i = 1 THEN start
                         ELSE At[i - 1] + Len(text(i - 1)) + Len(BlankLine)
                     end == At[n] + Len(text(n))
                 IN  /\ OccursAt(out, TemplateHead, 0)
                     /\ OccursAt(out, filename, Len(TemplateHead))
                     /\ OccursAt(out, TemplateNeck, Len(TemplateHead) + Len(filename))
                     /\ \A i \in 1..n : OccursAt(out, text(i), At[i])
                     /\ \A i \in 1..(n - 1) :
                           OccursAt(out, BlankLine, At[i] + Len(text(i)))
                     /\ OccursAt(out, TemplateFoot, end)
                     /\ Len(out) = end + Len(TemplateFoot)
                     /\ (c.filename = "x.pdf" /\ n = 1 /\ c.relevantChunks[1].text = "hello")
                           => /\ Occurs(out, Chars("x.pdf"))
                              /\ Occurs(out, Chars("hello"))

\* a context of several chunks, one of them with a blank line of its own,
\* was formatted
FormatWitness ==
    /\ FormatReturned
    /\ call.ragContext \notin {Null, Undefined}
    /\ Len(call.ragContext.relevantChunks) >= 2
    /\ call.ragContext.relevantChunks[1].text = "a\n\nb"
    /\ call.ragContext.relevantChunks[2].text = "hello"
    /\ Len(ret.value) > 0

=============================================================================
